---------------------------- MODULE Spec2Model ----------------------------
(***************************************************************************)
(* log2trace: the trace tree (build / flatten / getTimeRange), the         *)
(* timeline tick count, the zoom/pan viewport of <trace-visualizer> and    *)
(* its loading of a trace document from a URL.                             *)
(*                                                                         *)
(* Decimal strings (nanosecond timestamps) are sequences of digits; a      *)
(* BigInt is a digit sequence without leading zeros (<<0>> is zero).       *)
(* zoomLevel and panOffset are JavaScript numbers; they are kept here as   *)
(* fixed-point integers in units of 1/ZoomScale, a product being rounded   *)
(* to the nearest unit the way a double is rounded to the nearest double.  *)
(***************************************************************************)
EXTENDS Integers, Sequences, FiniteSets, TLC

VARIABLES
    \* ---- TraceTree (src/src/trace-tree.ts)
    doc,            \* the TraceData handed to TraceTree.build
    pc,             \* "input" before build(), "built" after it
    built,          \* the TraceTree build() returned
    flat,           \* what the last flatten() returned
    timeRange,      \* what the last getTimeRange() returned
    called,         \* the read operations called since build()
    spanBars,       \* the span bars of the last trace markup
    \* ---- Template.calculateTickCount
    tickW1, tickW2, \* two widths
    tickN1, tickN2, \* their tick counts
    tickPc,
    tickRange,      \* a time range in milliseconds
    tickMarks,      \* the ticks drawn for tickRange with tickN1 ticks
    \* ---- TraceVisualizerElement (src/src/component.ts)
    boundedPan,     \* TRUE: the bounded-pan component; FALSE: the earlier one
    tree,           \* _tree
    hasData,        \* the earlier component: _traceData is not null
    zoomLevel,      \* in units of 1/ZoomScale
    panOffset,      \* in units of 1/ZoomScale px
    isPanning,
    panStartX,      \* px
    panStartOffset, \* in units of 1/ZoomScale px
    markup,         \* what shadow.innerHTML holds
    dom,            \* the timeline of the displayed trace: transform, ticks, readout
    clientWidth,    \* timelineContainer.clientWidth, px
    gestures,       \* the drags the user has started
    resetRun,       \* the resets applied in a row, counted up to two
    requests        \* the loadTraceData(url) calls made, in call order

treeVars == <<doc, pc, built, flat, timeRange, called, spanBars>>
tickVars == <<tickW1, tickW2, tickN1, tickN2, tickPc, tickRange, tickMarks>>
viewVars == <<zoomLevel, panOffset, isPanning, panStartX, panStartOffset>>
compVars == <<boundedPan, tree, hasData, viewVars, markup, dom, clientWidth, gestures,
              resetRun, requests>>
vars == <<treeVars, tickVars, compVars>>

-----------------------------------------------------------------------------
(* Bounds of the model                                                      *)

MaxSpans == 3       \* span records per input document
MaxTickWidth == 280 \* widths handed to calculateTickCount
HalfScale == 5      \* zoom 0.5 in fixed-point units: the precision of the model
MaxGestures == 2    \* drags the user starts
MaxLoads == 2       \* loadTraceData calls

-----------------------------------------------------------------------------
(* Decimal strings and BigInt                                               *)

RECURSIVE StripZeros(_)
StripZeros(s) ==
    IF Len(s) > 1 /\ Head(s) = 0 THEN StripZeros(Tail(s)) ELSE s

\* BigInt(string): the value of a decimal string; "" is 0n.
BigInt(s) == IF s = <<>> THEN <<0>> ELSE StripZeros(s)

RECURSIVE LexCompare(_, _)
LexCompare(x, y) ==
    IF x = <<>> THEN 0
    ELSE IF Head(x) < Head(y) THEN -1
    ELSE IF Head(x) > Head(y) THEN 1
    ELSE LexCompare(Tail(x), Tail(y))

\* The sign of x - y for two BigInts.
BigSign(x, y) ==
    IF Len(x) < Len(y) THEN -1
    ELSE IF Len(x) > Len(y) THEN 1
    ELSE LexCompare(x, y)

\* BigInt / 1_000_000n: truncating division drops the last six digits.
BigDivMillion(x) ==
    IF Len(x) <= 6 THEN <<0>> ELSE SubSeq(x, 1, Len(x) - 6)

\* nanoToMilli(nano) = Number(BigInt(nano) / 1_000_000n).  A timestamp is a
\* fixed64 (at most 20 digits), so the quotient has at most 14 digits, is
\* below 2^53 and Number() is exact: the number is kept as its digits.
nanoToMilli(nano) == BigDivMillion(BigInt(nano))

\* a < b for two such numbers
NumLess(a, b) == BigSign(a, b) = -1
NumLeq(a, b) == BigSign(a, b) <= 0

-----------------------------------------------------------------------------
(* Input documents: TraceData = resourceSpans -> scopeSpans -> spans        *)

\* span.parentSpanId is optional: Absent is the missing field (undefined).
Absent == "<undefined>"

T5 == <<5>>
T05 == <<0, 5>>
T10 == <<1, 0>>
TMilli == <<1, 0, 0, 0, 0, 0, 0>>
T1000ms == <<1, 0, 0, 0, 0, 0, 0, 0, 0, 0>>
T1200ms == <<1, 2, 0, 0, 0, 0, 0, 0, 0, 0>>
T1800ms == <<1, 8, 0, 0, 0, 0, 0, 0, 0, 0>>
T2000ms == <<2, 0, 0, 0, 0, 0, 0, 0, 0, 0>>
\* 2^53 and 2^53 + 1: distinct integers that are the same double
TBig0 == <<9, 0, 0, 7, 1, 9, 9, 2, 5, 4, 7, 4, 0, 9, 9, 2>>
TBig1 == <<9, 0, 0, 7, 1, 9, 9, 2, 5, 4, 7, 4, 0, 9, 9, 3>>

SpanRec(n, id, parent, start, end) ==
    [name |-> n, spanId |-> id, parentSpanId |-> parent,
     startTimeUnixNano |-> start, endTimeUnixNano |-> end]

\* The span records input documents are made of: absent, empty, dangling,
\* resolvable, mutual and self parent references; repeated identifiers;
\* equal start times; start times that string or double comparison misorders.
SpanPool == {
    SpanRec("s1", "a", Absent, T1000ms, T2000ms),
    SpanRec("s2", "b", "a", T1200ms, T1800ms),
    SpanRec("s3", "c", "a", TBig1, TBig1),
    SpanRec("s4", "d", "a", TBig0, TBig1),
    SpanRec("s5", "c", "z", T5, T10),
    SpanRec("s6", "b", "", T10, TMilli),
    SpanRec("s7", "a", "b", T05, T5),
    SpanRec("s8", "d", "d", TBig0, TBig0),
    SpanRec("s9", "e", "b", T10, T1000ms) }

SpanSeqs == UNION { [1..n -> SpanPool] : n \in 0..MaxSpans }

StringAttr(k, v) == [key |-> k, value |-> [stringValue |-> v]]
IntAttr(k, v) == [key |-> k, value |-> [intValue |-> v]]

\* resource attributes of the i-th resource group of a document
GroupAttributes(i) ==
    CASE i % 4 = 1 -> <<StringAttr("host.name", "h"), StringAttr("service.name", "svc-a")>>
      [] i % 4 = 2 -> <<StringAttr("service.name", "svc-b")>>
      [] i % 4 = 3 -> <<IntAttr("service.name", 7)>>
      [] OTHER -> <<>>

\* ref is the identity of the span object: its position in the document
Ref(spans, i) == [ref |-> i] @@ spans[i]

Shapes == {"single", "perSpan", "perScope"}

\* The document holding the span records `spans` in this order, grouped by `shape`.
MkDoc(spans, shape) ==
    LET n == Len(spans)
        all == [i \in 1..n |-> Ref(spans, i)]
    IN  CASE shape = "single" ->
               [resourceSpans |-> <<[resource |-> [attributes |-> GroupAttributes(1)],
                                     scopeSpans |-> <<[spans |-> all]>>]>>]
          [] shape = "perSpan" ->
               [resourceSpans |->
                   [i \in 1..n |-> [resource |-> [attributes |-> GroupAttributes(i)],
                                    scopeSpans |-> <<[spans |-> <<all[i]>>]>>]]]
          [] OTHER ->
               [resourceSpans |-> <<[resource |-> [attributes |-> GroupAttributes(4)],
                                     scopeSpans |-> [i \in 1..n |-> [spans |-> <<all[i]>>]]]>>]

Docs == { MkDoc(s, sh) : s \in SpanSeqs, sh \in Shapes }

\* A document whose resourceSpans is no array: the JavaScript value in its
\* place ("undefined" is the missing field, "string:x" a one-character string,
\* "string:" the empty string).
NotArrayValues == {"undefined", "null", "number", "object", "string:x", "string:"}
NotArrayDocs == { [notAnArray |-> v] : v \in NotArrayValues }

DropField(rec, f) == [k \in DOMAIN rec \ {f} |-> rec[k]]

\* A document with one resource group that lacks a field the traversal reads.
Defects == {"noResource", "noAttributes", "noScopeSpans", "noSpans"}
DefectGroup(g, defect) ==
    CASE defect = "noResource" -> DropField(g, "resource")
      [] defect = "noAttributes" ->
            [g EXCEPT !.resource = [droppedAttributesCount |-> 0]]
      [] defect = "noScopeSpans" -> DropField(g, "scopeSpans")
      [] OTHER -> [g EXCEPT !.scopeSpans = <<[schemaUrl |-> ""]>>]
DefectDoc(d, at, defect) ==
    [resourceSpans |-> [i \in 1..Len(d.resourceSpans) |->
        IF i = at THEN DefectGroup(d.resourceSpans[i], defect) ELSE d.resourceSpans[i]]]
\* The defective group stands alone, before or after well-formed groups; these
\* documents hold one span fewer than the well-formed ones.
DefectDocs ==
    { DefectDoc(MkDoc(s, "perSpan"), at, defect) :
        s \in { q \in SpanSeqs : Len(q) \in 1..(MaxSpans - 1) },
        at \in 1..(MaxSpans - 1), defect \in Defects }

\* every span object of a document, in document order
RECURSIVE ConcatAll(_)
ConcatAll(ss) == IF ss = <<>> THEN <<>> ELSE Head(ss) \o ConcatAll(Tail(ss))

DocSpans(d) ==
    IF "resourceSpans" \notin DOMAIN d THEN <<>>
    ELSE ConcatAll([i \in 1..Len(d.resourceSpans) |->
            ConcatAll([j \in 1..Len(d.resourceSpans[i].scopeSpans) |->
                d.resourceSpans[i].scopeSpans[j].spans])])

-----------------------------------------------------------------------------
(* TraceTree.build                                                          *)

EmptyMap == [k \in {} |-> <<>>]

\* the name taken from the first attribute, whatever its key
extractServiceNameFirstAttr(resourceSpan) ==
    LET attrs == resourceSpan.resource.attributes
    IN  IF attrs = <<>> THEN "unknown-service"
        ELSE IF "stringValue" \in DOMAIN attrs[1].value THEN attrs[1].value.stringValue
        ELSE "unknown-service"

\* extractString(value) ?? 'unknown-service', value being the AnyValue of the
\* first attribute with key "service.name" (undefined when there is none)
extractServiceName(resourceSpan) ==
    LET attrs == resourceSpan.resource.attributes
        hits == { i \in 1..Len(attrs) : attrs[i].key = "service.name" }
    IN  IF hits = {} THEN "unknown-service"
        ELSE LET first == CHOOSE i \in hits : \A j \in hits : i <= j
                 value == attrs[first].value
             IN  IF "stringValue" \in DOMAIN value THEN value.stringValue
                 ELSE "unknown-service"

\* A JavaScript Map as the sequence of its entries in insertion order:
\* set() on a present key replaces the value and keeps the entry's place.
MapHas(m, k) == \E i \in 1..Len(m) : m[i].key = k
MapGet(m, k) == m[CHOOSE i \in 1..Len(m) : m[i].key = k].value
\* a set() that keeps the value a present key already has
MapSetKeepFirst(m, k, v) ==
    IF MapHas(m, k) THEN m ELSE Append(m, [key |-> k, value |-> v])

MapSet(m, k, v) ==
    IF MapHas(m, k)
    THEN [i \in 1..Len(m) |-> IF m[i].key = k THEN [key |-> k, value |-> v] ELSE m[i]]
    ELSE Append(m, [key |-> k, value |-> v])

FnSet(f, k, v) == [x \in DOMAIN f \cup {k} |-> IF x = k THEN v ELSE f[x]]

\* the collection pass, one step per span in the three nested loops
RECURSIVE CollectSpans(_, _, _)
CollectSpans(spans, serviceName, acc) ==
    IF spans = <<>> THEN acc
    ELSE CollectSpans(Tail(spans), serviceName,
            [spanMap |-> MapSet(acc.spanMap, Head(spans).spanId, Head(spans)),
             serviceNameOf |-> FnSet(acc.serviceNameOf, Head(spans).spanId, serviceName)])

RECURSIVE CollectScopes(_, _, _)
CollectScopes(scopes, serviceName, acc) ==
    IF scopes = <<>> THEN acc
    ELSE CollectScopes(Tail(scopes), serviceName,
                       CollectSpans(Head(scopes).spans, serviceName, acc))

RECURSIVE CollectResources(_, _)
CollectResources(rss, acc) ==
    IF rss = <<>> THEN acc
    ELSE CollectResources(Tail(rss),
            CollectScopes(Head(rss).scopeSpans, extractServiceName(Head(rss)), acc))

\* a linking pass without the existence check on the parent identifier
HasParentUnchecked(span, spanMap) ==
    /\ span.parentSpanId # Absent
    /\ span.parentSpanId # ""

\* if (span.parentSpanId && spanMap.has(span.parentSpanId))
HasParent(span, spanMap) ==
    /\ span.parentSpanId # Absent
    /\ span.parentSpanId # ""
    /\ MapHas(spanMap, span.parentSpanId)

\* a linking pass that knows only the spans met so far, as a single pass
\* over the document would
RECURSIVE LinkSpansSeenOnly(_, _, _)
LinkSpansSeenOnly(entries, spanMap, acc) ==
    IF entries = <<>> THEN acc
    ELSE LET span == Head(entries).value
             p == span.parentSpanId
             seen == SubSeq(spanMap, 1, Len(spanMap) - Len(entries) + 1)
         IN  LinkSpansSeenOnly(Tail(entries), spanMap,
                IF HasParent(span, seen)
                THEN [roots |-> acc.roots,
                      childrenOf |-> FnSet(acc.childrenOf, p,
                          IF p \in DOMAIN acc.childrenOf
                          THEN Append(acc.childrenOf[p], span) ELSE <<span>>)]
                ELSE [roots |-> Append(acc.roots, span), childrenOf |-> acc.childrenOf])

\* a linking pass that leaves out the spans whose parent is not in the document
RECURSIVE LinkSpansDropDangling(_, _, _)
LinkSpansDropDangling(entries, spanMap, acc) ==
    IF entries = <<>> THEN acc
    ELSE LET span == Head(entries).value
             p == span.parentSpanId
         IN  LinkSpansDropDangling(Tail(entries), spanMap,
                IF HasParent(span, spanMap)
                THEN [roots |-> acc.roots,
                      childrenOf |-> FnSet(acc.childrenOf, p,
                          IF p \in DOMAIN acc.childrenOf
                          THEN Append(acc.childrenOf[p], span) ELSE <<span>>)]
                ELSE IF HasParentUnchecked(span, spanMap) THEN acc
                ELSE [roots |-> Append(acc.roots, span), childrenOf |-> acc.childrenOf])

\* the tree-linking pass over spanMap.values()
RECURSIVE LinkSpans(_, _, _)
LinkSpans(entries, spanMap, acc) ==
    IF entries = <<>> THEN acc
    ELSE LET span == Head(entries).value
             p == span.parentSpanId
         IN  LinkSpans(Tail(entries), spanMap,
                IF HasParent(span, spanMap)
                THEN [roots |-> acc.roots,
                      childrenOf |-> FnSet(acc.childrenOf, p,
                          IF p \in DOMAIN acc.childrenOf
                          THEN Append(acc.childrenOf[p], span) ELSE <<span>>)]
                ELSE [roots |-> Append(acc.roots, span), childrenOf |-> acc.childrenOf])

\* parseInt(a.start) - parseInt(b.start): a double keeps 53 bits, so of a
\* timestamp above 2^53 only the leading 15 digits are compared
DoubleRounded(x) == IF Len(x) > 15 THEN SubSeq(x, 1, 15) ELSE x
compareByStartTimeAsDouble(a, b) ==
    LET x == BigInt(a.startTimeUnixNano)
        y == BigInt(b.startTimeUnixNano)
    IN  IF Len(x) # Len(y) THEN BigSign(x, y)
        ELSE BigSign(DoubleRounded(x), DoubleRounded(y))

\* diff = BigInt(a.start) - BigInt(b.start); diff < 0n ? -1 : diff > 0n ? 1 : 0
compareByStartTime(a, b) ==
    BigSign(BigInt(a.startTimeUnixNano), BigInt(b.startTimeUnixNano))

\* Array.prototype.sort with compareByStartTime: a stable sort
RECURSIVE InsertSorted(_, _)
InsertSorted(sorted, x) ==
    IF sorted = <<>> THEN <<x>>
    ELSE IF compareByStartTime(Head(sorted), x) <= 0
         THEN <<Head(sorted)>> \o InsertSorted(Tail(sorted), x)
         ELSE <<x>> \o sorted

RECURSIVE SortSpans(_)
SortSpans(s) ==
    IF s = <<>> THEN <<>>
    ELSE InsertSorted(SortSpans(SubSeq(s, 1, Len(s) - 1)), s[Len(s)])

TraceTree(roots, childrenOf, serviceNameOf) ==
    [roots |-> roots, childrenOf |-> childrenOf, serviceNameOf |-> serviceNameOf]

\* the spanMap of build(d) after the collection pass
SpanMapOf(d) ==
    CollectResources(d.resourceSpans, [spanMap |-> <<>>, serviceNameOf |-> EmptyMap]).spanMap

Build(d) ==
    LET collected == CollectResources(d.resourceSpans,
                                      [spanMap |-> <<>>, serviceNameOf |-> EmptyMap])
        linked == LinkSpans(collected.spanMap, collected.spanMap,
                            [roots |-> <<>>, childrenOf |-> EmptyMap])
    IN  TraceTree(SortSpans(linked.roots),
                  [k \in DOMAIN linked.childrenOf |-> SortSpans(linked.childrenOf[k])],
                  collected.serviceNameOf)

\* for (const x of value): the values that cannot be iterated raise a TypeError
NotIterable(v) == v \in {"undefined", "null", "number", "object"}
\* the characters a string yields
CharsOf(v) == IF v = "string:x" THEN <<"x">> ELSE <<>>

\* one pass of the outer loop body raises a TypeError: resourceSpan.resource
\* .attributes.find, for...of resourceSpan.scopeSpans, for...of scopeSpan.spans
GroupThrows(g) ==
    \/ "resource" \notin DOMAIN g
    \/ "attributes" \notin DOMAIN g.resource
    \/ "scopeSpans" \notin DOMAIN g
    \/ \E j \in 1..Len(g.scopeSpans) : "spans" \notin DOMAIN g.scopeSpans[j]

\* build(d) ends in a TypeError; a character of a string has no .resource
BuildThrows(d) ==
    IF "resourceSpans" \in DOMAIN d
    THEN \E i \in 1..Len(d.resourceSpans) : GroupThrows(d.resourceSpans[i])
    ELSE NotIterable(d.notAnArray) \/ CharsOf(d.notAnArray) # <<>>

\* the groups the outer loop visits when build(d) does not throw
VisitedGroups(d) ==
    IF "resourceSpans" \in DOMAIN d THEN d ELSE [resourceSpans |-> <<>>]

-----------------------------------------------------------------------------
(* TraceTree.flatten and TraceTree.getTimeRange                             *)

RECURSIVE walk(_, _, _)
\* a walk that recurses into the children at the parent's own level
walkSameLevel(t, spans, level) ==
    IF spans = <<>> THEN <<>>
    ELSE LET span == Head(spans)
             children == IF span.spanId \in DOMAIN t.childrenOf
                         THEN t.childrenOf[span.spanId] ELSE <<>>
         IN  <<[span |-> span, level |-> level]>>
             \o (IF Len(children) > 0 THEN walk(t, children, level) ELSE <<>>)
             \o walk(t, Tail(spans), level)

walk(t, spans, level) ==
    IF spans = <<>> THEN <<>>
    ELSE LET span == Head(spans)
             children == IF span.spanId \in DOMAIN t.childrenOf
                         THEN t.childrenOf[span.spanId] ELSE <<>>
         IN  <<[span |-> span, level |-> level]>>
             \o (IF Len(children) > 0 THEN walk(t, children, level + 1) ELSE <<>>)
             \o walk(t, Tail(spans), level)

\* the entries of the child lists kept under the identifiers `keys`
RECURSIVE ListEntries(_, _)
ListEntries(t, keys) ==
    IF keys = {} THEN <<>>
    ELSE LET k == CHOOSE x \in keys : TRUE
         IN  [i \in 1..Len(t.childrenOf[k]) |-> [span |-> t.childrenOf[k][i], level |-> 1]]
             \o ListEntries(t, keys \ {k})

\* a flatten() that appends the child lists its walk from the roots did not reach
FlattenWithUnreached(t) ==
    LET reached == walk(t, t.roots, 0)
        reachedIds == { reached[i].span.spanId : i \in 1..Len(reached) }
    IN  reached \o ListEntries(t, DOMAIN t.childrenOf \ reachedIds)

Flatten(t) == walk(t, t.roots, 0)

\* the loop of getTimeRange: min starts at Infinity, max at -Infinity
RECURSIVE RangeLoop(_, _)
RangeLoop(entries, acc) ==
    IF entries = <<>> THEN acc
    ELSE LET start == nanoToMilli(Head(entries).span.startTimeUnixNano)
             end == nanoToMilli(Head(entries).span.endTimeUnixNano)
         IN  RangeLoop(Tail(entries),
                [minInf |-> FALSE,
                 min |-> IF acc.minInf \/ NumLess(start, acc.min) THEN start ELSE acc.min,
                 maxInf |-> FALSE,
                 max |-> IF acc.maxInf \/ NumLess(acc.max, end) THEN end ELSE acc.max])

\* a getTimeRange that returns after the first span
GetTimeRangeFirstOnly(t) ==
    LET flatSpans == Flatten(t)
    IN  IF Len(flatSpans) = 0 THEN [min |-> <<0>>, max |-> <<0>>]
        ELSE [min |-> nanoToMilli(flatSpans[1].span.startTimeUnixNano),
              max |-> nanoToMilli(flatSpans[1].span.endTimeUnixNano)]

GetTimeRange(t) ==
    LET flatSpans == Flatten(t)
    IN  IF Len(flatSpans) = 0 THEN [min |-> <<0>>, max |-> <<0>>]
        ELSE LET r == RangeLoop(flatSpans, [minInf |-> TRUE, min |-> <<0>>,
                                            maxInf |-> TRUE, max |-> <<0>>])
             IN  [min |-> r.min, max |-> r.max]

EmptyTree == TraceTree(<<>>, EmptyMap, EmptyMap)

-----------------------------------------------------------------------------
(* Template.calculateTickCount                                              *)

FallbackWidth == 600
MinTickSpacing == 90
MinTicks == 2

Max(a, b) == IF a >= b THEN a ELSE b
Min(a, b) == IF a <= b THEN a ELSE b

\* width = containerWidth || 600: 0 (like undefined) takes the fallback
calculateTickCount(containerWidth) ==
    LET width == IF containerWidth = 0 THEN FallbackWidth ELSE containerWidth
    IN  Max(MinTicks, width \div MinTickSpacing)

\* a loop that stops one tick short: i < ticks
getTimelineTicksMarkupShort(range, ticks) ==
    LET duration == range.max - range.min
    IN  [k \in 1..ticks |->
            [position |-> [num |-> (k - 1) * 100, den |-> ticks],
             relativeTime |-> [num |-> duration * (k - 1), den |-> ticks]]]

\* getTimelineTicksMarkup: the ticks for i = 0..ticks, position = (i / ticks) * 100
\* percent and relativeTime = duration * i / ticks, each kept as a fraction
getTimelineTicksMarkup(range, ticks) ==
    LET duration == range.max - range.min
    IN  [k \in 1..(ticks + 1) |->
            [position |-> [num |-> (k - 1) * 100, den |-> ticks],
             relativeTime |-> [num |-> duration * (k - 1), den |-> ticks]]]

\* time ranges in milliseconds handed to getTimelineTicksMarkup
EmptyRange == [min |-> 0, max |-> 0]
TickRanges == {EmptyRange, [min |-> 1000, max |-> 2000]}

-----------------------------------------------------------------------------
(* Template.getSpanMarkup                                                   *)

\* The double a / b by the signs of a and b (-1, 0, 1): a division by zero
\* yields NaN or an infinity, any other one a finite number.
Quotient(signA, signB) ==
    IF signB # 0 THEN "finite"
    ELSE IF signA = 0 THEN "NaN"
    ELSE IF signA > 0 THEN "Infinity" ELSE "-Infinity"

\* Math.max(x, 0.5): NaN if x is NaN
MaxWithHalf(x) == IF x = "-Infinity" THEN "finite" ELSE x

\* getSpanMarkup: left = startPercent, width = Math.max(widthPercent, 0.5)
getSpanMarkup(span, range) ==
    LET totalDuration == BigSign(range.max, range.min)
        startMs == nanoToMilli(span.startTimeUnixNano)
        endMs == nanoToMilli(span.endTimeUnixNano)
        startPercent == Quotient(BigSign(startMs, range.min), totalDuration)
        widthPercent == Quotient(BigSign(endMs, startMs), totalDuration)
    IN  [spanId |-> span.spanId, left |-> startPercent, width |-> MaxWithHalf(widthPercent)]

\* getTraceMarkup -> getSpansMarkup: one bar per flattened span
getTraceMarkupBars(t) ==
    LET flatSpans == Flatten(t)
        range == GetTimeRange(t)
    IN  [i \in 1..Len(flatSpans) |-> getSpanMarkup(flatSpans[i].span, range)]

-----------------------------------------------------------------------------
(* TraceVisualizerElement: numbers                                          *)

ZoomScale == 2 * HalfScale      \* zoom 1.0 in fixed-point units

\* z * num / den rounded to the nearest unit
RoundMul(z, num, den) == (2 * z * num + den) \div (2 * den)

FactorDen == 10
WheelOutNum == 9        \* e.deltaY > 0 ? 0.9 : 1.1
WheelInNum == 11
ZoomInNum == 12         \* zoomLevel * 1.2
ZoomOutNum == 8         \* zoomLevel * 0.8
UpperBound == 10        \* Math.min(10, ...)
LegacyTicks == 10       \* const ticks = 10 of the earlier renderTimeline

\* an upper limit twice as far
ZoomMaxLoose == 2 * UpperBound * ZoomScale

ZoomMax == UpperBound * ZoomScale
\* Math.max(1, ...) in the bounded-pan component, Math.max(0.5, ...) before it
ZoomMin(bounded) == IF bounded THEN ZoomScale ELSE HalfScale

\* calculateTickCount of a width given in units of 1/ZoomScale px
calculateTickCountScaled(w) ==
    LET width == IF w = 0 THEN FallbackWidth * ZoomScale ELSE w
    IN  Max(MinTicks, width \div (MinTickSpacing * ZoomScale))

\* Math.round(zoomLevel * 100)
ZoomPercent(z) == RoundMul(z, 100, ZoomScale)

-----------------------------------------------------------------------------
(* TraceVisualizerElement: inputs of the model                              *)

DragStep == 100
WidthA == 120
WidthB == 300
Widths == {WidthA, WidthB}
PointerXs == {0, DragStep}

DocEmpty == MkDoc(<<>>, "single")
DocE2E == MkDoc(<<SpanRec("s1", "a", Absent, T1000ms, T2000ms),
                  SpanRec("s2", "b", "a", T1200ms, T1800ms)>>, "perSpan")
DocOne == MkDoc(<<SpanRec("s6", "b", "", T10, TMilli)>>, "single")
CompDocs == {DocEmpty, DocE2E, DocOne}
\* TraceTree.build of each of them
BuiltOf == [d \in CompDocs |-> Build(d)]

-----------------------------------------------------------------------------
(* TraceVisualizerElement: rendering                                        *)

\* no trace is displayed: there is no .timeline-container
NoDom == [shown |-> FALSE, styled |-> FALSE, translateX |-> 0, scaleX |-> ZoomScale,
          ticks |-> 0, zoomDisplay |-> 0]

\* render() of the bounded-pan component: the markup and the timeline it leaves
Render(t, cw) ==
    IF Len(t.roots) = 0
    THEN [markup |-> "empty", dom |-> NoDom]
    ELSE [markup |-> "trace",
          dom |-> [shown |-> TRUE, styled |-> FALSE, translateX |-> 0,
                   scaleX |-> ZoomScale,
                   \* recalculateTimelineTicks: calculateTickCount(clientWidth)
                   ticks |-> calculateTickCount(cw),
                   zoomDisplay |-> 100]]

\* render() of the earlier component: empty only while _traceData is null
RenderLegacy(data) ==
    IF ~data
    THEN [markup |-> "empty", dom |-> NoDom]
    ELSE [markup |-> "trace",
          dom |-> [shown |-> TRUE, styled |-> FALSE, translateX |-> 0,
                   scaleX |-> ZoomScale, ticks |-> LegacyTicks, zoomDisplay |-> 100]]

\* a clamp that bounds the pan on the right only
clampPanOffsetNoMin(z, p, cw, shown) ==
    IF ~shown THEN p
    ELSE IF cw * z <= cw * ZoomScale THEN 0
    ELSE Min(0, p)

\* clampPanOffset(): the pan offset it leaves
clampPanOffset(z, p, cw, shown) ==
    IF ~shown THEN p
    ELSE LET containerWidth == cw * ZoomScale
             scaledWidth == cw * z
         IN  IF scaledWidth <= containerWidth THEN 0
             ELSE LET maxPan == 0
                      minPan == -(scaledWidth - containerWidth)
                  IN  Max(minPan, Min(maxPan, p))

\* updateZoomPan() with zoomLevel = z and panOffset = p: the pan offset and
\* the timeline it leaves
updateZoomPan(bounded, z, p, cw, d) ==
    IF bounded
    THEN LET p2 == clampPanOffset(z, p, cw, d.shown)
         IN  [panOffset |-> p2,
              dom |-> IF d.shown
                      THEN [shown |-> TRUE, styled |-> TRUE, translateX |-> p2, scaleX |-> z,
                            \* visibleWidth = clientWidth * zoomLevel
                            ticks |-> calculateTickCountScaled(cw * z),
                            zoomDisplay |-> ZoomPercent(z)]
                      ELSE d]
    ELSE [panOffset |-> p,
          dom |-> IF d.shown
                  THEN [d EXCEPT !.styled = TRUE, !.translateX = p, !.scaleX = z,
                                 !.zoomDisplay = ZoomPercent(z)]
                  ELSE d]

-----------------------------------------------------------------------------
(* Initial states                                                           *)

NoRange == [min |-> <<0>>, max |-> <<0>>]

\* the component after its constructor
Init ==
    /\ boundedPan \in BOOLEAN
    /\ tree = EmptyTree
    /\ hasData = FALSE
    /\ zoomLevel = ZoomScale
    /\ panOffset = 0
    /\ isPanning = FALSE
    /\ panStartX = 0
    /\ panStartOffset = 0
    /\ markup = "blank"
    /\ dom = NoDom
    /\ clientWidth \in Widths
    /\ gestures = 0
    /\ resetRun = 0
    /\ doc = DocEmpty /\ pc = "input" /\ built = EmptyTree /\ flat = <<>> /\ spanBars = <<>>
    /\ timeRange = NoRange /\ called = {}
    /\ tickW1 = 0 /\ tickW2 = 0 /\ tickN1 = 0 /\ tickN2 = 0 /\ tickPc = "idle"
    /\ tickRange = EmptyRange /\ tickMarks = <<>>
    /\ requests = <<>>

\* an input document handed to TraceTree.build
InitTree ==
    /\ doc \in Docs \cup NotArrayDocs \cup DefectDocs
    /\ pc = "input" /\ built = EmptyTree /\ flat = <<>> /\ spanBars = <<>>
    /\ timeRange = NoRange /\ called = {}
    /\ tickW1 = 0 /\ tickW2 = 0 /\ tickN1 = 0 /\ tickN2 = 0 /\ tickPc = "idle"
    /\ tickRange = EmptyRange /\ tickMarks = <<>>
    /\ requests = <<>>
    /\ boundedPan = TRUE /\ tree = EmptyTree /\ hasData = FALSE
    /\ zoomLevel = ZoomScale /\ panOffset = 0 /\ isPanning = FALSE
    /\ panStartX = 0 /\ panStartOffset = 0
    /\ markup = "blank" /\ dom = NoDom /\ clientWidth = 0 /\ gestures = 0 /\ resetRun = 0

\* two widths handed to calculateTickCount
InitTicks ==
    /\ tickW1 \in 0..MaxTickWidth
    /\ tickW2 \in 0..MaxTickWidth
    /\ tickN1 = 0 /\ tickN2 = 0 /\ tickPc = "idle"
    /\ tickRange \in TickRanges /\ tickMarks = <<>>
    /\ requests = <<>>
    /\ doc = DocEmpty /\ pc = "input" /\ built = EmptyTree /\ flat = <<>> /\ spanBars = <<>>
    /\ timeRange = NoRange /\ called = {}
    /\ boundedPan = TRUE /\ tree = EmptyTree /\ hasData = FALSE
    /\ zoomLevel = ZoomScale /\ panOffset = 0 /\ isPanning = FALSE
    /\ panStartX = 0 /\ panStartOffset = 0
    /\ markup = "blank" /\ dom = NoDom /\ clientWidth = 0 /\ gestures = 0 /\ resetRun = 0

-----------------------------------------------------------------------------
(* TraceTree: build, then any read operations                               *)

DoBuild ==
    /\ pc = "input"
    /\ IF BuildThrows(doc)
       THEN pc' = "threw" /\ built' = built
       ELSE pc' = "built" /\ built' = Build(VisitedGroups(doc))
    /\ UNCHANGED <<doc, flat, timeRange, called, spanBars, tickVars, compVars>>

\* a flatten() that takes the spans out of the root list as it walks
DoFlattenDraining ==
    /\ pc = "built"
    /\ flat' = Flatten(built)
    /\ built' = [built EXCEPT !.roots = <<>>]
    /\ called' = called \cup {"flatten"}
    /\ UNCHANGED <<doc, pc, timeRange, spanBars, tickVars, compVars>>

DoFlatten ==
    /\ pc = "built"
    /\ flat' = Flatten(built)
    /\ called' = called \cup {"flatten"}
    /\ UNCHANGED <<doc, pc, built, timeRange, spanBars, tickVars, compVars>>

DoGetTimeRange ==
    /\ pc = "built"
    /\ timeRange' = GetTimeRange(built)
    /\ called' = called \cup {"getTimeRange"}
    /\ UNCHANGED <<doc, pc, built, flat, spanBars, tickVars, compVars>>

\* render() of a component holding the built tree: the span bars it draws
DoRenderSpans ==
    /\ pc = "built"
    /\ spanBars' = IF Len(built.roots) = 0 THEN <<>> ELSE getTraceMarkupBars(built)
    /\ called' = called \cup {"render"}
    /\ UNCHANGED <<doc, pc, built, flat, timeRange, tickVars, compVars>>

NextTree == DoBuild \/ DoFlatten \/ DoGetTimeRange \/ DoRenderSpans

SpecTree == InitTree /\ [][NextTree]_vars

DoTickCount ==
    /\ tickPc = "idle"
    /\ tickN1' = calculateTickCount(tickW1)
    /\ tickN2' = calculateTickCount(tickW2)
    /\ tickPc' = "done"
    /\ UNCHANGED <<tickW1, tickW2, tickRange, tickMarks, treeVars, compVars>>

\* getTimelineTicksMarkup(timeRange, ticks) with the count just computed
DoTicksMarkup ==
    /\ tickPc = "done"
    /\ tickMarks' = getTimelineTicksMarkup(tickRange, tickN1)
    /\ tickPc' = "marked"
    /\ UNCHANGED <<tickW1, tickW2, tickN1, tickN2, tickRange, treeVars, compVars>>

NextTicks == DoTickCount \/ DoTicksMarkup

SpecTicks == InitTicks /\ [][NextTicks]_vars

-----------------------------------------------------------------------------
(* TraceVisualizerElement: operations                                       *)

\* the element's render(), whichever component it is
RenderNow(t, data, cw) == IF boundedPan THEN Render(t, cw) ELSE RenderLegacy(data)

\* connectedCallback (without a data-url attribute), attributeChangedCallback
\* and set config: each ends in render()
Rerender ==
    /\ markup' = RenderNow(tree, hasData, clientWidth).markup
    /\ dom' = RenderNow(tree, hasData, clientWidth).dom
    /\ UNCHANGED <<boundedPan, tree, hasData, viewVars, clientWidth, gestures, requests, treeVars, tickVars>>
    /\ resetRun' = 0

\* set traceData(data): this._tree = TraceTree.build(data); this.render().
\* When build() throws, the exception leaves the setter before the assignment.
SetTraceData(d) ==
    /\ IF BuildThrows(d)
       THEN UNCHANGED <<tree, hasData, markup, dom>>
       ELSE /\ tree' = BuiltOf[d]
            /\ hasData' = ~boundedPan
            /\ markup' = RenderNow(tree', hasData', clientWidth).markup
            /\ dom' = RenderNow(tree', hasData', clientWidth).dom
    /\ UNCHANGED <<boundedPan, viewVars, clientWidth, gestures, requests, treeVars, tickVars>>
    /\ resetRun' = 0

\* a wheel listener that recomputes the transform whether the zoom changed or not
WheelAlways(deltaYPositive) ==
    /\ dom.shown
    /\ LET delta == IF deltaYPositive THEN WheelOutNum ELSE WheelInNum
           newZoom == Max(ZoomMin(boundedPan),
                          Min(ZoomMax, RoundMul(zoomLevel, delta, FactorDen)))
           u == updateZoomPan(boundedPan, newZoom, panOffset, clientWidth, dom)
       IN  /\ zoomLevel' = newZoom
           /\ panOffset' = u.panOffset
           /\ dom' = u.dom
    /\ UNCHANGED <<boundedPan, tree, hasData, isPanning, panStartX, panStartOffset,
                   markup, clientWidth, gestures, requests, treeVars, tickVars>>
    /\ resetRun' = 0

\* the wheel listener of the timeline
Wheel(deltaYPositive) ==
    /\ dom.shown
    /\ LET delta == IF deltaYPositive THEN WheelOutNum ELSE WheelInNum
           newZoom == Max(ZoomMin(boundedPan),
                          Min(ZoomMax, RoundMul(zoomLevel, delta, FactorDen)))
           u == updateZoomPan(boundedPan, newZoom, panOffset, clientWidth, dom)
       IN  IF newZoom # zoomLevel
           THEN /\ zoomLevel' = newZoom
                /\ panOffset' = u.panOffset
                /\ dom' = u.dom
           ELSE UNCHANGED <<zoomLevel, panOffset, dom>>
    /\ UNCHANGED <<boundedPan, tree, hasData, isPanning, panStartX, panStartOffset,
                   markup, clientWidth, gestures, requests, treeVars, tickVars>>
    /\ resetRun' = 0

\* a mousedown listener that starts a drag on a span bar too
MouseDownAnyTarget(button, onSpanBar, clientX) ==
    /\ dom.shown
    /\ IF button = 0
       THEN /\ gestures < MaxGestures
            /\ gestures' = gestures + 1
            /\ isPanning' = TRUE
            /\ panStartX' = clientX
            /\ panStartOffset' = panOffset
       ELSE UNCHANGED <<isPanning, panStartX, panStartOffset, gestures>>
    /\ UNCHANGED <<boundedPan, tree, hasData, zoomLevel, panOffset, markup, dom,
                   clientWidth, requests, treeVars, tickVars>>
    /\ resetRun' = 0

\* the mousedown listener: button 0 is the primary button; onSpanBar is
\* e.target.classList.contains('span-bar'), true of a bar itself and of none
\* of the elements inside it
MouseDown(button, onSpanBar, clientX) ==
    /\ dom.shown
    /\ IF button = 0 /\ ~onSpanBar
       THEN /\ gestures < MaxGestures
            /\ gestures' = gestures + 1
            /\ isPanning' = TRUE
            /\ panStartX' = clientX
            /\ panStartOffset' = panOffset
       ELSE UNCHANGED <<isPanning, panStartX, panStartOffset, gestures>>
    /\ UNCHANGED <<boundedPan, tree, hasData, zoomLevel, panOffset, markup, dom,
                   clientWidth, requests, treeVars, tickVars>>
    /\ resetRun' = 0

\* a mousemove listener that adds the pointer's travel to the current offset
MouseMoveFromCurrent(clientX) ==
    /\ dom.shown
    /\ IF isPanning
       THEN LET deltaX == clientX - panStartX
                u == updateZoomPan(boundedPan, zoomLevel,
                                   panOffset + deltaX * ZoomScale, clientWidth, dom)
            IN  /\ panOffset' = u.panOffset
                /\ dom' = u.dom
       ELSE UNCHANGED <<panOffset, dom>>
    /\ UNCHANGED <<boundedPan, tree, hasData, zoomLevel, isPanning, panStartX,
                   panStartOffset, markup, clientWidth, gestures, requests, treeVars, tickVars>>
    /\ resetRun' = 0

\* the mousemove listener
MouseMove(clientX) ==
    /\ dom.shown
    /\ IF isPanning
       THEN LET deltaX == clientX - panStartX
                u == updateZoomPan(boundedPan, zoomLevel,
                                   panStartOffset + deltaX * ZoomScale, clientWidth, dom)
            IN  /\ panOffset' = u.panOffset
                /\ dom' = u.dom
       ELSE UNCHANGED <<panOffset, dom>>
    /\ UNCHANGED <<boundedPan, tree, hasData, zoomLevel, isPanning, panStartX,
                   panStartOffset, markup, clientWidth, gestures, requests, treeVars, tickVars>>
    /\ resetRun' = 0

\* the mouseup listener
MouseUp ==
    /\ dom.shown
    /\ isPanning' = FALSE
    /\ UNCHANGED <<boundedPan, tree, hasData, zoomLevel, panOffset, panStartX,
                   panStartOffset, markup, dom, clientWidth, gestures, requests, treeVars, tickVars>>
    /\ resetRun' = 0

\* a mouseleave listener that lets the drag go on
MouseLeaveKeepsPanning ==
    /\ dom.shown
    /\ UNCHANGED <<boundedPan, tree, hasData, zoomLevel, panOffset, isPanning, panStartX,
                   panStartOffset, markup, dom, clientWidth, gestures, requests, treeVars, tickVars>>
    /\ resetRun' = 0

\* the mouseleave listener
MouseLeave ==
    /\ dom.shown
    /\ isPanning' = FALSE
    /\ UNCHANGED <<boundedPan, tree, hasData, zoomLevel, panOffset, panStartX,
                   panStartOffset, markup, dom, clientWidth, gestures, requests, treeVars, tickVars>>
    /\ resetRun' = 0

\* a reset of the zoom level alone
ResetViewportZoomOnly ==
    /\ zoomLevel' = ZoomScale
    /\ UNCHANGED <<panOffset, dom>>

\* zoomLevel = 1; panOffset = 0; updateZoomPan()
ResetViewport ==
    LET u == updateZoomPan(boundedPan, ZoomScale, 0, clientWidth, dom)
    IN  /\ zoomLevel' = ZoomScale
        /\ panOffset' = u.panOffset
        /\ dom' = u.dom

\* the dblclick listener
DblClick ==
    /\ dom.shown
    /\ ResetViewport
    /\ UNCHANGED <<boundedPan, tree, hasData, isPanning, panStartX, panStartOffset,
                   markup, clientWidth, gestures, requests, treeVars, tickVars>>
    /\ resetRun' = Min(resetRun + 1, 2)

\* the click listener of .zoom-reset
ZoomReset ==
    /\ dom.shown
    /\ ResetViewport
    /\ UNCHANGED <<boundedPan, tree, hasData, isPanning, panStartX, panStartOffset,
                   markup, clientWidth, gestures, requests, treeVars, tickVars>>
    /\ resetRun' = Min(resetRun + 1, 2)

\* the click listener of .zoom-in
ZoomIn ==
    /\ dom.shown
    /\ LET z == Min(ZoomMax, RoundMul(zoomLevel, ZoomInNum, FactorDen))
           u == updateZoomPan(boundedPan, z, panOffset, clientWidth, dom)
       IN  /\ zoomLevel' = z
           /\ panOffset' = u.panOffset
           /\ dom' = u.dom
    /\ UNCHANGED <<boundedPan, tree, hasData, isPanning, panStartX, panStartOffset,
                   markup, clientWidth, gestures, requests, treeVars, tickVars>>
    /\ resetRun' = 0

\* a .zoom-out listener without the lower limit
ZoomOutUnclamped ==
    /\ dom.shown
    /\ LET z == RoundMul(zoomLevel, ZoomOutNum, FactorDen)
           u == updateZoomPan(boundedPan, z, panOffset, clientWidth, dom)
       IN  /\ zoomLevel' = z
           /\ panOffset' = u.panOffset
           /\ dom' = u.dom
    /\ UNCHANGED <<boundedPan, tree, hasData, isPanning, panStartX, panStartOffset,
                   markup, clientWidth, gestures, requests, treeVars, tickVars>>
    /\ resetRun' = 0

\* the click listener of .zoom-out
ZoomOut ==
    /\ dom.shown
    /\ LET z == Max(ZoomMin(boundedPan), RoundMul(zoomLevel, ZoomOutNum, FactorDen))
           u == updateZoomPan(boundedPan, z, panOffset, clientWidth, dom)
       IN  /\ zoomLevel' = z
           /\ panOffset' = u.panOffset
           /\ dom' = u.dom
    /\ UNCHANGED <<boundedPan, tree, hasData, isPanning, panStartX, panStartOffset,
                   markup, clientWidth, gestures, requests, treeVars, tickVars>>
    /\ resetRun' = 0

\* the layout gives the timeline another width; the component has no listener for it
Resize(w) ==
    /\ w # clientWidth
    /\ clientWidth' = w
    /\ UNCHANGED <<boundedPan, tree, hasData, viewVars, markup, dom, gestures, requests, treeVars, tickVars>>
    /\ resetRun' = 0

Next ==
    \/ Rerender
    \/ \E d \in CompDocs : SetTraceData(d)
    \/ \E down \in BOOLEAN : Wheel(down)
    \/ \E b \in {0, 2}, bar \in BOOLEAN, x \in PointerXs : MouseDown(b, bar, x)
    \/ \E x \in PointerXs : MouseMove(x)
    \/ MouseUp
    \/ MouseLeave
    \/ DblClick
    \/ ZoomReset
    \/ ZoomIn
    \/ ZoomOut
    \/ \E w \in Widths : Resize(w)

\* either component under any sequence of operations
Spec == Init /\ [][Next]_vars

\* the bounded-pan component in a timeline that keeps its width
InitBounded ==
    /\ boundedPan = TRUE
    /\ tree = EmptyTree
    /\ hasData = FALSE
    /\ zoomLevel = ZoomScale
    /\ panOffset = 0
    /\ isPanning = FALSE
    /\ panStartX = 0
    /\ panStartOffset = 0
    /\ markup = "blank"
    /\ dom = NoDom
    /\ clientWidth = WidthA
    /\ gestures = 0
    /\ resetRun = 0
    /\ doc = DocEmpty /\ pc = "input" /\ built = EmptyTree /\ flat = <<>> /\ spanBars = <<>>
    /\ timeRange = NoRange /\ called = {}
    /\ tickW1 = 0 /\ tickW2 = 0 /\ tickN1 = 0 /\ tickN2 = 0 /\ tickPc = "idle"
    /\ tickRange = EmptyRange /\ tickMarks = <<>>
    /\ requests = <<>>

NextBounded ==
    \/ Rerender
    \/ \E d \in CompDocs : SetTraceData(d)
    \/ \E down \in BOOLEAN : Wheel(down)
    \/ \E b \in {0, 2}, bar \in BOOLEAN, x \in PointerXs : MouseDown(b, bar, x)
    \/ \E x \in PointerXs : MouseMove(x)
    \/ MouseUp
    \/ MouseLeave
    \/ DblClick
    \/ ZoomReset
    \/ ZoomIn
    \/ ZoomOut

SpecBounded == InitBounded /\ [][NextBounded]_vars

\* either component, zoomed and resized but never dragged
NextZoom ==
    \/ Rerender
    \/ \E d \in CompDocs : SetTraceData(d)
    \/ \E down \in BOOLEAN : Wheel(down)
    \/ DblClick
    \/ ZoomReset
    \/ ZoomIn
    \/ ZoomOut
    \/ \E w \in Widths : Resize(w)

SpecZoom == Init /\ [][NextZoom]_vars

-----------------------------------------------------------------------------
(* TraceVisualizerElement: loading a document from a URL                    *)

\* a JSON document without resourceSpans
DocNoGroups == [notAnArray |-> "undefined"]
LoadDocs == {DocE2E, DocNoGroups}

\* what fetch(url) and response.json() yield for each URL of the model:
\* a document, a response that is not OK, or a rejected fetch
Urls == {"u1", "u2", "noGroups", "notFound", "down"}
Response(url) ==
    CASE url = "u1" -> [kind |-> "ok", data |-> DocE2E]
      [] url = "u2" -> [kind |-> "ok", data |-> DocOne]
      [] url = "noGroups" -> [kind |-> "ok", data |-> DocNoGroups]
      [] url = "notFound" -> [kind |-> "notOk"]
      [] OTHER -> [kind |-> "rejected"]

\* the load succeeds: the response is OK and build() accepts its document
Succeeds(url) == Response(url).kind = "ok" /\ ~BuildThrows(Response(url).data)

\* loadTraceData(url) up to its first await: the loading markup replaces what
\* was displayed and the fetch is in flight. overlap records that an earlier
\* call was still waiting when this one was made.
LoadTraceData(url) ==
    /\ Len(requests) < MaxLoads
    /\ requests' = Append(requests,
                          [url |-> url, pending |-> TRUE,
                           overlap |-> \E i \in 1..Len(requests) : requests[i].pending])
    /\ markup' = "loading"
    /\ dom' = NoDom
    /\ UNCHANGED <<boundedPan, tree, hasData, viewVars, clientWidth, gestures,
                   treeVars, tickVars>>
    /\ resetRun' = 0

\* a continuation that empties the tree when the load fails
FetchSettlesClearing(i) ==
    /\ i \in 1..Len(requests)
    /\ requests[i].pending
    /\ requests' = [requests EXCEPT ![i].pending = FALSE]
    /\ IF Succeeds(requests[i].url)
       THEN /\ tree' = BuiltOf[Response(requests[i].url).data]
            /\ hasData' = ~boundedPan
            /\ markup' = RenderNow(tree', hasData', clientWidth).markup
            /\ dom' = RenderNow(tree', hasData', clientWidth).dom
       ELSE /\ markup' = "error"
            /\ dom' = NoDom
            /\ tree' = EmptyTree
            /\ UNCHANGED hasData
    /\ UNCHANGED <<boundedPan, viewVars, clientWidth, gestures, treeVars, tickVars>>
    /\ resetRun' = 0

\* the rest of loadTraceData for the i-th call, run when its fetch and its
\* json() have settled: this.traceData = data, or the error markup of the
\* catch block
FetchSettles(i) ==
    /\ i \in 1..Len(requests)
    /\ requests[i].pending
    /\ requests' = [requests EXCEPT ![i].pending = FALSE]
    /\ IF Succeeds(requests[i].url)
       THEN /\ tree' = BuiltOf[Response(requests[i].url).data]
            /\ hasData' = ~boundedPan
            /\ markup' = RenderNow(tree', hasData', clientWidth).markup
            /\ dom' = RenderNow(tree', hasData', clientWidth).dom
       ELSE /\ markup' = "error"
            /\ dom' = NoDom
            /\ UNCHANGED <<tree, hasData>>
    /\ UNCHANGED <<boundedPan, viewVars, clientWidth, gestures, treeVars, tickVars>>
    /\ resetRun' = 0

\* the bounded-pan component loading documents while it is zoomed and dragged
\* to the left
NextLoad ==
    \/ \E d \in LoadDocs : SetTraceData(d)
    \/ ZoomIn
    \/ MouseDown(0, FALSE, DragStep)
    \/ MouseMove(0)
    \/ \E url \in Urls : LoadTraceData(url)
    \/ \E i \in 1..MaxLoads : FetchSettles(i)

SpecLoad == InitBounded /\ [][NextLoad]_vars

-----------------------------------------------------------------------------
(* Properties of calculateTickCount                                         *)

\* C6: tickCount(w1) <= tickCount(w2) whenever 0 <= w1 <= w2, and
\* tickCount(w) >= 2 for every w >= 0, w = 0 included.
TickCountMonotone ==
    tickPc = "done" =>
        /\ (tickW1 <= tickW2 => tickN1 <= tickN2)
        /\ tickN1 >= MinTicks

-----------------------------------------------------------------------------
(* Properties of the trace tree                                             *)

Range(seq) == { seq[i] : i \in 1..Len(seq) }
Occurrences(seq, x) == Cardinality({ i \in 1..Len(seq) : seq[i] = x })

DocSpanSet(d) == Range(DocSpans(d))
IdsOf(d) == { s.spanId : s \in DocSpanSet(d) }

\* A span is identified by its identifier: the span of an identifier is the
\* last record of the document that carries it.
IndexedSpans(d) ==
    { s \in DocSpanSet(d) : \A t \in DocSpanSet(d) : t.spanId = s.spanId => t.ref <= s.ref }

Unresolved(s, d) ==
    \/ s.parentSpanId = Absent
    \/ s.parentSpanId = ""
    \/ s.parentSpanId \notin IdsOf(d)

ChildCount(t, k, s) ==
    IF k \in DOMAIN t.childrenOf THEN Occurrences(t.childrenOf[k], s) ELSE 0

\* every list of the tree: the root list and each child list
TreeLists(t) == {t.roots} \cup { t.childrenOf[k] : k \in DOMAIN t.childrenOf }

\* C7: after build(), a span is in roots iff its parentSpanId is absent, empty
\* or names an identifier that is not in the document; every other span is in
\* the child list of the span its parentSpanId names, once, and in no other list.
RootClassification ==
    pc = "built" =>
        /\ \A l \in TreeLists(built) : Range(l) \subseteq IndexedSpans(doc)
        /\ \A s \in IndexedSpans(doc) :
              IF Unresolved(s, doc)
              THEN /\ Occurrences(built.roots, s) = 1
                   /\ \A k \in DOMAIN built.childrenOf : ChildCount(built, k, s) = 0
              ELSE /\ Occurrences(built.roots, s) = 0
                   /\ ChildCount(built, s.parentSpanId, s) = 1
                   /\ \A k \in DOMAIN built.childrenOf :
                         k # s.parentSpanId => ChildCount(built, k, s) = 0

\* the scenario of P2: A(parent absent), B(parent A), C(parent Z, not in the
\* input), together with a root whose parent is the empty string elsewhere
RootClassificationWitness ==
    /\ pc = "built"
    /\ \E r \in Range(built.roots) : r.parentSpanId = Absent
    /\ \E r \in Range(built.roots) : r.parentSpanId = "z"
    /\ \E k \in DOMAIN built.childrenOf :
          \E c \in Range(built.childrenOf[k]) : c.parentSpanId = k

\* C8: after build(), the root list and every child list are sorted
\* non-decreasing by start timestamp compared as exact integers.
SiblingsSorted ==
    pc = "built" =>
        \A l \in TreeLists(built) : \A i, j \in 1..Len(l) :
            i < j => BigSign(BigInt(l[i].startTimeUnixNano),
                             BigInt(l[j].startTimeUnixNano)) <= 0

\* two siblings whose start times are 2^53 and 2^53 + 1, given in the
\* document in the opposite order
SiblingsSortedWitness ==
    /\ pc = "built"
    /\ \E l \in TreeLists(built) : \E i \in 1..Len(l) - 1 :
          /\ l[i].startTimeUnixNano = TBig0
          /\ l[i + 1].startTimeUnixNano = TBig1
          /\ l[i].ref > l[i + 1].ref

\* the depth of a span of the tree: the number of parent links up to its root
RECURSIVE DepthOf(_, _, _)
DepthOf(s, d, fuel) ==
    IF Unresolved(s, d) \/ fuel = 0 THEN 0
    ELSE 1 + DepthOf(CHOOSE p \in IndexedSpans(d) : p.spanId = s.parentSpanId, d, fuel - 1)

\* the entries after position i that belong to the subtree of entry i
SubtreeEnd(f, i) ==
    IF \E j \in (i + 1)..Len(f) : f[j].level <= f[i].level
    THEN (CHOOSE j \in (i + 1)..Len(f) :
             /\ f[j].level <= f[i].level
             /\ \A k \in (i + 1)..(j - 1) : f[k].level > f[i].level) - 1
    ELSE Len(f)

\* the spans of the entries of f at positions lo..hi that have level lv, in order
RECURSIVE AtLevel(_, _, _, _)
AtLevel(f, lo, hi, lv) ==
    IF lo > hi THEN <<>>
    ELSE (IF f[lo].level = lv THEN <<f[lo].span>> ELSE <<>>) \o AtLevel(f, lo + 1, hi, lv)

\* C9: flatten() lists the roots in stored order at level 0, each span
\* immediately followed by its subtree with its children in stored order, and
\* the level of every entry is its depth.
FlattenPreOrder ==
    (pc = "built" /\ "flatten" \in called) =>
        /\ AtLevel(flat, 1, Len(flat), 0) = built.roots
        /\ \A i \in 1..Len(flat) :
              /\ i = 1 => flat[i].level = 0
              /\ i > 1 => flat[i].level <= flat[i - 1].level + 1
              /\ AtLevel(flat, i + 1, SubtreeEnd(flat, i), flat[i].level + 1)
                    = (IF flat[i].span.spanId \in DOMAIN built.childrenOf
                       THEN built.childrenOf[flat[i].span.spanId] ELSE <<>>)
              /\ flat[i].level = DepthOf(flat[i].span, doc, Len(flat))

\* a chain root - child - grandchild has been flattened
FlattenPreOrderWitness ==
    /\ pc = "built" /\ "flatten" \in called
    /\ Len(flat) = 3
    /\ flat[1].level = 0 /\ flat[2].level = 1 /\ flat[3].level = 2

\* the spans getTimeRange() ranges over: those of the tree below its roots
TreeSpans(t) == { e.span : e \in Range(Flatten(t)) }

\* C10: for a non-empty tree getTimeRange() returns (min, max) with min <= the
\* start and max >= the end, in milliseconds, of every span of the tree, both
\* attained; for the empty tree it returns (0, 0).
TimeRangeBounds ==
    (pc = "built" /\ "getTimeRange" \in called) =>
        IF built.roots = <<>>
        THEN timeRange = [min |-> <<0>>, max |-> <<0>>]
        ELSE /\ \A s \in TreeSpans(built) :
                   /\ NumLeq(timeRange.min, nanoToMilli(s.startTimeUnixNano))
                   /\ NumLeq(nanoToMilli(s.endTimeUnixNano), timeRange.max)
             /\ \E s \in TreeSpans(built) : timeRange.min = nanoToMilli(s.startTimeUnixNano)
             /\ \E s \in TreeSpans(built) : timeRange.max = nanoToMilli(s.endTimeUnixNano)

\* the E2E scenario: s1 = [1000 ms, 2000 ms] with its child s2 inside it, and
\* a third span, so that min and max come from different entries or not the first
TimeRangeBoundsWitness ==
    /\ pc = "built" /\ "getTimeRange" \in called
    /\ Len(built.roots) >= 2
    /\ timeRange.min = <<0>>
    /\ timeRange.max = <<2, 0, 0, 0>>

-----------------------------------------------------------------------------
(* Properties of the viewport                                               *)

\* C1: in the bounded-pan component with a timeline of fixed width, panOffset
\* is 0 while containerWidth * zoomLevel <= containerWidth, and otherwise lies
\* between -(containerWidth * zoomLevel - containerWidth) and 0.
PanBoundInvariant ==
    boundedPan =>
        IF clientWidth * zoomLevel <= clientWidth * ZoomScale
        THEN panOffset = 0
        ELSE /\ -(clientWidth * zoomLevel - clientWidth * ZoomScale) <= panOffset
             /\ panOffset <= 0

\* a drag to the left of a zoomed timeline has been stopped at the lower limit,
\* short of the pointer's travel
PanBoundWitness ==
    /\ boundedPan /\ dom.styled /\ isPanning
    /\ zoomLevel > ZoomScale
    /\ panOffset = -(clientWidth * zoomLevel - clientWidth * ZoomScale)
    /\ panOffset > panStartOffset - DragStep * ZoomScale

\* C2: zoomLevel stays between its lower limit (1 in the bounded-pan
\* component, 0.5 in the earlier one) and 10.
ZoomBoundInvariant ==
    /\ (IF boundedPan THEN ZoomScale ELSE HalfScale) <= zoomLevel
    /\ zoomLevel <= UpperBound * ZoomScale

\* zooming in has been stopped at 10
ZoomBoundWitness ==
    /\ boundedPan /\ dom.styled
    /\ zoomLevel = UpperBound * ZoomScale
    /\ dom.scaleX = zoomLevel

\* C3: assigning traceData leaves zoomLevel = 1, panOffset = 0 and the
\* panning flag cleared.
LoadResetsViewport ==
    [][(\E d \in CompDocs : SetTraceData(d)) =>
           (zoomLevel' = ZoomScale /\ panOffset' = 0 /\ ~isPanning')]_vars

\* C4: a reset (double click or the reset control) leaves zoomLevel = 1 and
\* panOffset = 0, and a reset that follows a reset changes nothing.
ResetIdempotent ==
    [][(DblClick \/ ZoomReset) =>
           /\ zoomLevel' = ZoomScale
           /\ panOffset' = 0
           /\ resetRun >= 1 => (viewVars' = viewVars /\ dom' = dom /\ markup' = markup)]_vars

\* two resets in a row, applied to a timeline that was zoomed and dragged away
\* from the origin while the drag is still in flight
ResetIdempotentWitness ==
    /\ resetRun = 2
    /\ isPanning /\ panStartOffset < 0
    /\ zoomLevel = ZoomScale /\ panOffset = 0
    /\ dom.styled /\ dom.scaleX = ZoomScale /\ dom.translateX = 0

\* C5: in the bounded-pan component, whenever containerWidth * zoomLevel of a
\* displayed timeline changes (by a zoom or by a resize), the timeline then
\* shows tickCount(containerWidth * zoomLevel) ticks.
TicksFollowWidth ==
    [][(/\ boundedPan /\ dom.shown /\ dom'.shown
        /\ clientWidth' * zoomLevel' # clientWidth * zoomLevel)
       => dom'.ticks = calculateTickCountScaled(clientWidth' * zoomLevel')]_vars

-----------------------------------------------------------------------------
(* Properties of the service names                                          *)

\* the resource group that holds the span object with identity r
GroupOfRef(d, r) ==
    CHOOSE i \in 1..Len(d.resourceSpans) :
        \E j \in 1..Len(d.resourceSpans[i].scopeSpans) :
            \E k \in 1..Len(d.resourceSpans[i].scopeSpans[j].spans) :
                d.resourceSpans[i].scopeSpans[j].spans[k].ref = r

\* the string value of the group's "service.name" attribute, if it has one
StringServiceNames(group) ==
    { a.value.stringValue : a \in { b \in Range(group.resource.attributes) :
          b.key = "service.name" /\ "stringValue" \in DOMAIN b.value } }

\* C11: after build(), serviceNameOf maps each indexed span identifier to the
\* string value of the "service.name" attribute of the span's resource group,
\* and to "unknown-service" when the group has no such string value.
ServiceNameOfGroup ==
    pc = "built" =>
        /\ DOMAIN built.serviceNameOf = IdsOf(doc)
        /\ \A s \in IndexedSpans(doc) :
              LET names == StringServiceNames(doc.resourceSpans[GroupOfRef(doc, s.ref)])
              IN  IF names = {} THEN built.serviceNameOf[s.spanId] = "unknown-service"
                  ELSE built.serviceNameOf[s.spanId] \in names

\* a child in another resource group than its parent, each with its own
\* group's name, beside a span of a group whose service.name is no string
ServiceNameOfGroupWitness ==
    /\ pc = "built"
    /\ Len(DocSpans(doc)) = 3
    /\ Len(doc.resourceSpans) = 3
    /\ "a" \in DOMAIN built.childrenOf
    /\ \E c \in Range(built.childrenOf["a"]) : c.spanId = "b"
    /\ built.serviceNameOf["a"] = "svc-a"
    /\ built.serviceNameOf["b"] = "svc-b"
    /\ \E k \in DOMAIN built.serviceNameOf : built.serviceNameOf[k] = "unknown-service"

-----------------------------------------------------------------------------
(* Properties of build() on malformed documents                             *)

\* C12: build() of a document whose resourceSpans is absent or is no array
\* ends in a failure and returns no tree.
StructuralErrorsPropagate ==
    (pc # "input" /\ "resourceSpans" \notin DOMAIN doc) => pc = "threw"

\* C13: build() of a document with a resource group whose attributes list is
\* missing succeeds and gives the group's spans the name "unknown-service".
MissingAttributesTolerated ==
    (/\ pc # "input"
     /\ "resourceSpans" \in DOMAIN doc
     /\ \A i \in 1..Len(doc.resourceSpans) :
           /\ DOMAIN doc.resourceSpans[i] = {"resource", "scopeSpans"}
           /\ \A j \in 1..Len(doc.resourceSpans[i].scopeSpans) :
                 "spans" \in DOMAIN doc.resourceSpans[i].scopeSpans[j]
     /\ \E i \in 1..Len(doc.resourceSpans) :
           "attributes" \notin DOMAIN doc.resourceSpans[i].resource)
    => /\ pc = "built"
       /\ \A i \in 1..Len(doc.resourceSpans) :
             "attributes" \notin DOMAIN doc.resourceSpans[i].resource =>
                 \A s \in Range(doc.resourceSpans[i].scopeSpans[1].spans) :
                     /\ s.spanId \in DOMAIN built.serviceNameOf
                     /\ s \in IndexedSpans(doc) =>
                            built.serviceNameOf[s.spanId] = "unknown-service"

-----------------------------------------------------------------------------
(* Properties of the markup                                                 *)

\* C14: no span bar is positioned by a division by a zero duration: when
\* max - min = 0 the percentages are not computed by dividing.
NoDivisionByZero ==
    "render" \in called =>
        \A i \in 1..Len(spanBars) :
            /\ spanBars[i].left = "finite"
            /\ spanBars[i].width = "finite"

\* C16: getTimelineTicksMarkup(timeRange, count) draws count + 1 ticks, the
\* i-th (i = 0..count) at the fraction i / count of the width, within [0, 1],
\* with relative time (max - min) * i / count: the first at 0 with time 0, the
\* last at 1 with time max - min; and count, coming from calculateTickCount,
\* is at least 2, so never 0.
TicksMarkupShape ==
    tickPc = "marked" =>
        LET count == tickN1
            duration == tickRange.max - tickRange.min
        IN  /\ count >= 2
            /\ Len(tickMarks) = count + 1
            /\ \A k \in 1..Len(tickMarks) :
                  LET m == tickMarks[k]
                  IN  /\ m.position.den = count /\ m.relativeTime.den = count
                      /\ m.position.num = (k - 1) * 100
                      /\ 0 <= m.position.num /\ m.position.num <= 100 * m.position.den
                      /\ m.relativeTime.num = duration * (k - 1)
            /\ tickMarks[1].position.num = 0 /\ tickMarks[1].relativeTime.num = 0
            /\ tickMarks[count + 1].position.num = 100 * count
            /\ tickMarks[count + 1].relativeTime.num = duration * count

\* seven ticks over a second, drawn for a width of 0 (the fallback count 6)
TicksMarkupShapeWitness ==
    /\ tickPc = "marked"
    /\ tickW1 = 0
    /\ tickRange.max - tickRange.min = 1000
    /\ Len(tickMarks) = 7
    /\ tickMarks[4].position = [num |-> 300, den |-> 6]
    /\ tickMarks[7].relativeTime = [num |-> 6000, den |-> 6]

-----------------------------------------------------------------------------
(* Properties of duplicate identifiers                                      *)

\* the number of places the span object s takes in the lists of the tree
Placements(t, s) ==
    Occurrences(t.roots, s) +
    Cardinality({ k \in DOMAIN t.childrenOf : s \in Range(t.childrenOf[k]) })

\* the span objects of d whose identifier a later object of d carries too
Overwritten(d) ==
    { s \in DocSpanSet(d) : \E u \in DocSpanSet(d) : u.spanId = s.spanId /\ u.ref > s.ref }

\* C15: build() of a document in which span records share an identifier
\* succeeds; of the records of one identifier only the last in document order
\* is placed in the tree (once, as root or child), the records naming the
\* identifier as parent are its children, and serviceNameOf holds the service
\* name of the last record's resource group.
DuplicatesLastWins ==
    (pc # "input" /\ doc \in Docs /\ Overwritten(doc) # {}) =>
        /\ pc = "built"
        /\ \A s \in Overwritten(doc) :
              /\ Placements(built, s) = 0
              /\ \E w \in IndexedSpans(doc) :
                    /\ w.spanId = s.spanId
                    /\ w.ref > s.ref
                    /\ Placements(built, w) = 1
                    /\ \A l \in TreeLists(built) : Occurrences(l, w) <= 1
                    /\ \A c \in IndexedSpans(doc) :
                          c.parentSpanId = w.spanId =>
                              /\ w.spanId \in DOMAIN built.childrenOf
                              /\ c \in Range(built.childrenOf[w.spanId])
                    /\ LET names == StringServiceNames(
                                        doc.resourceSpans[GroupOfRef(doc, w.ref)])
                       IN  IF names = {}
                           THEN built.serviceNameOf[w.spanId] = "unknown-service"
                           ELSE built.serviceNameOf[w.spanId] \in names

\* two records with identifier "b" in different resource groups: the later
\* one is the root, parent of the span that names "b", under its group's name
DuplicatesLastWinsWitness ==
    /\ pc = "built"
    /\ Len(DocSpans(doc)) = 3
    /\ Len(doc.resourceSpans) = 3
    /\ DocSpans(doc)[1].spanId = "b" /\ DocSpans(doc)[2].spanId = "b"
    /\ built.roots = <<DocSpans(doc)[2]>>
    /\ "b" \in DOMAIN built.childrenOf
    /\ built.childrenOf["b"] = <<DocSpans(doc)[3]>>
    /\ built.serviceNameOf["b"] = "svc-b"

-----------------------------------------------------------------------------
(* Properties of the viewport transitions                                   *)

\* zoomLevel within the limits of the component
WithinZoomLimits(z) ==
    (IF boundedPan THEN ZoomScale ELSE HalfScale) <= z /\ z <= UpperBound * ZoomScale

\* clamp(z, lowerBound, 10)
ClampZoom(z) ==
    IF z < (IF boundedPan THEN ZoomScale ELSE HalfScale)
    THEN (IF boundedPan THEN ZoomScale ELSE HalfScale)
    ELSE IF z > UpperBound * ZoomScale THEN UpperBound * ZoomScale ELSE z

\* C17: a wheel event sets zoomLevel to clamp(zoomLevel * 0.9, lowerBound, 10)
\* when deltaY > 0 and to clamp(zoomLevel * 1.1, lowerBound, 10) otherwise; when
\* that is the current zoomLevel, zoomLevel, panOffset and the displayed
\* timeline stay as they are, and otherwise the transform is recomputed.
WheelTransition ==
    [][\A down \in BOOLEAN :
          Wheel(down) =>
              LET target == ClampZoom(RoundMul(zoomLevel,
                                IF down THEN WheelOutNum ELSE WheelInNum, FactorDen))
              IN  /\ zoomLevel' = target
                  /\ target = zoomLevel => (panOffset' = panOffset /\ dom' = dom)
                  /\ target # zoomLevel => (dom'.styled /\ dom'.scaleX = target
                                            /\ dom'.translateX = panOffset')]_vars

\* a freshly rendered timeline at zoom 10 with a pan: a wheel-in leaves it
\* as it is, not even restyled
WheelTransitionWitness ==
    /\ boundedPan /\ dom.shown /\ ~dom.styled
    /\ zoomLevel = UpperBound * ZoomScale
    /\ panOffset < 0
    /\ resetRun = 0

\* C18: zoom-in sets zoomLevel to zoomLevel * 1.2 and zoom-out to
\* zoomLevel * 0.8, each clamped to [lowerBound, 10]; zoom-in never decreases
\* and zoom-out never increases zoomLevel.
ZoomControls ==
    [][/\ ZoomIn => /\ zoomLevel' = ClampZoom(RoundMul(zoomLevel, ZoomInNum, FactorDen))
                    /\ zoomLevel' >= zoomLevel
                    /\ WithinZoomLimits(zoomLevel')
       /\ ZoomOut => /\ zoomLevel' = ClampZoom(RoundMul(zoomLevel, ZoomOutNum, FactorDen))
                     /\ zoomLevel' <= zoomLevel
                     /\ WithinZoomLimits(zoomLevel')]_vars

\* the earlier component zoomed out to its lower limit 0.5, shown as 50%
ZoomControlsWitness ==
    /\ ~boundedPan /\ dom.styled
    /\ zoomLevel = HalfScale
    /\ dom.scaleX = HalfScale /\ dom.zoomDisplay = 50

\* C19: while panning, a pointer-move at clientX sets panOffset to
\* panStartOffset + (clientX - panStartX), clamped to the pan bounds, and
\* leaves zoomLevel; while not panning it leaves zoomLevel and panOffset.
PointerMove ==
    [][\A x \in PointerXs :
          MouseMove(x) =>
              IF isPanning
              THEN LET raw == panStartOffset + (x - panStartX) * ZoomScale
                       minPan == -(clientWidth * zoomLevel - clientWidth * ZoomScale)
                   IN  /\ zoomLevel' = zoomLevel
                       /\ panOffset' = IF minPan >= 0 THEN 0
                                       ELSE IF raw > 0 THEN 0
                                       ELSE IF raw < minPan THEN minPan ELSE raw
              ELSE zoomLevel' = zoomLevel /\ panOffset' = panOffset]_vars

\* a second drag that started at a negative offset and has moved the
\* timeline further left by the pointer's travel, short of the limit
PointerMoveWitness ==
    /\ boundedPan /\ isPanning /\ dom.styled
    /\ panStartOffset < 0
    /\ panOffset = panStartOffset - DragStep * ZoomScale
    /\ panOffset > -(clientWidth * zoomLevel - clientWidth * ZoomScale)

\* C20: a pointer-down with the primary button on a target that is no span
\* bar sets the panning flag and records clientX and panOffset as the drag
\* origin; any other pointer-down leaves the panning flag and the drag origin;
\* no pointer-down changes zoomLevel or panOffset.
PointerDown ==
    [][\A b \in {0, 2}, bar \in BOOLEAN, x \in PointerXs :
          MouseDown(b, bar, x) =>
              /\ zoomLevel' = zoomLevel /\ panOffset' = panOffset
              /\ IF b = 0 /\ ~bar
                 THEN isPanning' /\ panStartX' = x /\ panStartOffset' = panOffset
                 ELSE /\ isPanning' = isPanning
                      /\ panStartX' = panStartX /\ panStartOffset' = panStartOffset]_vars

\* the second drag has started at DragStep from a timeline panned to the left
PointerDownWitness ==
    /\ boundedPan /\ isPanning
    /\ gestures = 2
    /\ panStartX = DragStep
    /\ panStartOffset < 0 /\ panStartOffset = panOffset

-----------------------------------------------------------------------------
(* Properties of the end of a drag                                          *)

\* C21: a mouseup or mouseleave clears the panning flag and changes neither
\* zoomLevel nor panOffset nor the timeline; while the flag is clear a
\* mousemove changes no panOffset, and the flag is set again only by a
\* mousedown of the primary button on a target that is no span bar.
PointerRelease ==
    [][ /\ (MouseUp \/ MouseLeave) =>
              /\ ~isPanning'
              /\ zoomLevel' = zoomLevel
              /\ panOffset' = panOffset
              /\ dom' = dom
        /\ (~isPanning /\ \E x \in PointerXs : MouseMove(x)) =>
              /\ panOffset' = panOffset
              /\ ~isPanning'
        /\ (~isPanning /\ isPanning') =>
              \E x \in PointerXs : MouseDown(0, FALSE, x) ]_vars

\* a drag that moved the timeline has been released
PointerReleaseWitness ==
    /\ dom.shown
    /\ gestures >= 1
    /\ ~isPanning
    /\ panOffset < 0
    /\ panStartOffset = 0

-----------------------------------------------------------------------------
(* Further properties of the tree                                           *)

\* C22: after build(), spans of one list (roots or a child list) with equal
\* start timestamps stand in the order in which the document holds them.
TiesKeepEncounterOrder ==
    pc = "built" =>
        \A l \in TreeLists(built) : \A i, j \in 1..Len(l) :
            (i < j /\ compareByStartTime(l[i], l[j]) = 0) => l[i].ref < l[j].ref

\* the identifiers of the spans that childrenOf holds under identifier k
ChildIds(t, k) ==
    IF k \in DOMAIN t.childrenOf THEN { c.spanId : c \in Range(t.childrenOf[k]) } ELSE {}

\* the identifiers reached from the set `from` by one or more child links
RECURSIVE DescendantIds(_, _, _)
DescendantIds(t, from, fuel) ==
    LET next == UNION { ChildIds(t, k) : k \in from }
    IN  IF fuel = 0 \/ next = {} THEN next
        ELSE next \cup DescendantIds(t, next, fuel - 1)

\* the number of span records of d that carry identifier k
RecordsOf(d, k) == Cardinality({ s \in DocSpanSet(d) : s.spanId = k })

\* C23: after build() on any document, every identifier of a span held in
\* childrenOf and every identifier of serviceNameOf is carried by exactly one
\* span record of the document, and no span is its own descendant in childrenOf.
TreeInvariant ==
    pc = "built" =>
        /\ \A k \in DOMAIN built.serviceNameOf : RecordsOf(doc, k) = 1
        /\ \A p \in DOMAIN built.childrenOf :
              \A k \in ChildIds(built, p) : RecordsOf(doc, k) = 1
        /\ \A k \in DOMAIN built.childrenOf :
              k \notin DescendantIds(built, {k}, Len(DocSpans(doc)))

\* C24: flatten() and getTimeRange() leave the tree as build() returned it,
\* and whatever calls were made before, in whatever order, the sequence
\* flatten() last returned is the flattening of that tree and the range
\* getTimeRange() last returned is its range.
ReadOnlyTree ==
    pc = "built" =>
        LET constructed == Build(VisitedGroups(doc))
        IN  /\ built = constructed
            /\ "flatten" \in called => flat = Flatten(constructed)
            /\ "getTimeRange" \in called => timeRange = GetTimeRange(constructed)

\* flatten() and getTimeRange() have both been called on a tree with a child
ReadOnlyTreeWitness ==
    /\ pc = "built"
    /\ {"flatten", "getTimeRange"} \subseteq called
    /\ \E i \in 1..Len(flat) : flat[i].level = 1
    /\ timeRange # NoRange

\* the span records of a document without their positions
Unref(s) == [f \in DOMAIN s \ {"ref"} |-> s[f]]
RecordsIn(d) == [i \in 1..Len(DocSpans(d)) |-> Unref(DocSpans(d)[i])]

\* the names of the records of a list, and of every list of a tree
NamesOf(l) == [i \in 1..Len(l) |-> l[i].name]
ShapeOfTree(t) ==
    [roots |-> NamesOf(t.roots),
     childrenOf |-> [k \in DOMAIN t.childrenOf |-> NamesOf(t.childrenOf[k])]]

Orderings(n) == { f \in [1..n -> 1..n] : \A i, j \in 1..n : f[i] = f[j] => i = j }

DistinctIdsAndStarts(recs) ==
    \A i, j \in 1..Len(recs) :
        i # j => /\ recs[i].spanId # recs[j].spanId
                 /\ compareByStartTime(recs[i], recs[j]) # 0

\* C25: a span whose parent stands later in the document, or in another
\* resource or scope group, is in that parent's child list; and if the
\* identifiers and the start times of the document are distinct, every
\* permutation of its span records under every grouping builds the same
\* roots and the same childrenOf.
LinkingOrderIndependent ==
    (pc = "built" /\ doc \in Docs) =>
        /\ \A s \in IndexedSpans(doc) :
              ~Unresolved(s, doc) =>
                  /\ s.parentSpanId \in DOMAIN built.childrenOf
                  /\ s \in Range(built.childrenOf[s.parentSpanId])
        /\ LET recs == RecordsIn(doc)
           IN  DistinctIdsAndStarts(recs) =>
                 \A f \in Orderings(Len(recs)), sh \in Shapes :
                     ShapeOfTree(Build(MkDoc([i \in 1..Len(recs) |-> recs[f[i]]], sh)))
                         = ShapeOfTree(built)

\* the child stands first and its parent last, each in a resource group of
\* its own, with a third span of another start time between them
LinkingOrderIndependentWitness ==
    /\ pc = "built"
    /\ doc \in Docs
    /\ Len(DocSpans(doc)) = 3
    /\ Len(doc.resourceSpans) = 3
    /\ DistinctIdsAndStarts(RecordsIn(doc))
    /\ DocSpans(doc)[1].parentSpanId = DocSpans(doc)[3].spanId
    /\ DocSpans(doc)[3].spanId \in DOMAIN built.childrenOf
    /\ DocSpans(doc)[1] \in Range(built.childrenOf[DocSpans(doc)[3].spanId])

-----------------------------------------------------------------------------
(* Further properties of the component                                      *)

\* C26: whenever a trace is displayed, the translate and scale applied to the
\* timeline container and the zoom readout are those of panOffset and zoomLevel.
DisplayMatchesState ==
    dom.shown =>
        /\ dom.translateX = panOffset
        /\ dom.scaleX = zoomLevel
        /\ dom.zoomDisplay = ZoomPercent(zoomLevel)

-----------------------------------------------------------------------------
(* Properties of flatten() on cyclic and repeated input                     *)

\* the parent references from s end, within `fuel` steps, at a span that is a root
RECURSIVE Rooted(_, _, _)
Rooted(s, d, fuel) ==
    IF Unresolved(s, d) THEN TRUE
    ELSE IF fuel = 0 THEN FALSE
    ELSE Rooted(CHOOSE p \in IndexedSpans(d) : p.spanId = s.parentSpanId, d, fuel - 1)

\* C27: flatten() of the tree built from any document returns a finite
\* sequence in which no span and no identifier occurs twice and which holds no
\* span whose parent references run into a cycle.
FlattenSafeOnCycles ==
    (pc = "built" /\ "flatten" \in called) =>
        /\ Len(flat) <= Cardinality(IdsOf(doc))
        /\ \A i, j \in 1..Len(flat) :
              i # j => flat[i].span.spanId # flat[j].span.spanId
        /\ \A i \in 1..Len(flat) :
              /\ flat[i].span \in IndexedSpans(doc)
              /\ Rooted(flat[i].span, doc, Len(DocSpans(doc)))

\* two spans that name each other as parent, next to a root: flatten() has
\* returned the root alone
FlattenSafeOnCyclesWitness ==
    /\ pc = "built"
    /\ "flatten" \in called
    /\ Len(DocSpans(doc)) = 3
    /\ \E k \in DOMAIN built.childrenOf :
          /\ k \in DescendantIds(built, {k}, 3)
          /\ ChildIds(built, k) # {k}
    /\ Len(flat) = 1
    /\ flat[1].level = 0

\* the places of the tree (a position of the root list or of a child list)
\* that hold a span with identifier k
PlacesOf(t, k) ==
    { <<"roots", i>> : i \in { n \in 1..Len(t.roots) : t.roots[n].spanId = k } }
    \cup UNION { { <<p, i>> : i \in { n \in 1..Len(t.childrenOf[p]) :
                                        t.childrenOf[p][n].spanId = k } } :
                 p \in DOMAIN t.childrenOf }

\* C28: after build() every identifier of the document has exactly one place
\* in the tree, in the root list or in one child list; and if no parent
\* reference runs into a cycle, flatten() returns every identifier exactly
\* once, as many entries as the document has identifiers.
NoSpanLost ==
    pc = "built" =>
        /\ \A k \in IdsOf(doc) : Cardinality(PlacesOf(built, k)) = 1
        /\ ("flatten" \in called
            /\ \A s \in IndexedSpans(doc) : Rooted(s, doc, Len(DocSpans(doc)))) =>
               /\ Len(flat) = Cardinality(IdsOf(doc))
               /\ \A k \in IdsOf(doc) :
                     Cardinality({ i \in 1..Len(flat) : flat[i].span.spanId = k }) = 1

\* a root with a child and a span whose parent is not in the document:
\* flatten() has returned all three
NoSpanLostWitness ==
    /\ pc = "built"
    /\ "flatten" \in called
    /\ Cardinality(IdsOf(doc)) = 3
    /\ Len(flat) = 3
    /\ \E i \in 1..3 : flat[i].level = 1
    /\ \E i \in 1..3 : flat[i].span.parentSpanId = "z"

-----------------------------------------------------------------------------
(* Properties of loading                                                    *)

\* C29: a traceData assignment whose build() throws changes neither the tree
\* nor the viewport nor what is displayed; a loadTraceData whose fetch is
\* rejected, whose response is not OK or whose document build() rejects keeps
\* the tree, zoomLevel, panOffset and the panning flag and displays the error.
FailedLoadKeepsState ==
    [][ /\ \A d \in LoadDocs :
              (BuildThrows(d) /\ SetTraceData(d)) =>
                  UNCHANGED <<tree, zoomLevel, panOffset, isPanning, markup, dom>>
        /\ \A i \in 1..MaxLoads :
              (i <= Len(requests) /\ ~Succeeds(requests[i].url) /\ FetchSettles(i)) =>
                  /\ UNCHANGED <<tree, zoomLevel, panOffset, isPanning>>
                  /\ markup' = "error" ]_vars

\* a load has failed while the component held a trace, zoomed in and dragged
\* to the left with the drag still going on
FailedLoadKeepsStateWitness ==
    /\ markup = "error"
    /\ \E i \in 1..Len(requests) : ~requests[i].pending /\ ~Succeeds(requests[i].url)
    /\ Len(tree.roots) > 0
    /\ zoomLevel > ZoomScale
    /\ panOffset < 0
    /\ isPanning

\* C30: of two loadTraceData calls of which the second is made while the
\* first still waits, the second decides the tree and the displayed trace
\* once both have succeeded, in whichever order they settle.
LatestLoadWins ==
    [][ \A i \in 1..MaxLoads :
            (/\ Len(requests) = 2
             /\ requests[2].overlap
             /\ Succeeds(requests[1].url) /\ Succeeds(requests[2].url)
             /\ FetchSettles(i)
             /\ \A j \in 1..2 : ~requests'[j].pending) =>
                /\ tree' = BuiltOf[Response(requests[2].url).data]
                /\ markup' = "trace" ]_vars

=============================================================================
